---- MODULE Spec2Model ----
(***************************************************************************)
(* The cascading configurator of appmgr (src/appmgr/src/config/mod.rs):    *)
(* configure, its inner configure_rec and handle_broken_dependent, remove  *)
(* and NoMatchWithPath, as a state machine over the per-app durable        *)
(* records (config file, mount-point replica, configured / recoverable /   *)
(* needs-restart flags, container status) with an explicit call stack of   *)
(* configure_rec frames.  The collaborators whose code is outside src/     *)
(* (spec matching, generation,                                             *)
(* pointer update, rules, the dependency predicate, container control)     *)
(* are modelled from their description.                                    *)
(***************************************************************************)
EXTENDS Integers, Sequences, FiniteSets, TLC

VARIABLES
    graph,        \* graph[d]: the apps d's manifest declares a dependency on
    persisted,    \* apps/<name>/config.yaml: {} (absent) or {cfg}
    replica,      \* <VOLUMES>/<name>/start9/config.yaml: {} or {cfg}
    configured,   \* info.configured
    recoverable,  \* info.recoverable
    needsRestart, \* the needs-restart flag of the registry
    status,       \* DockerStatus of the app's container
    root,         \* configure's name argument
    arg,          \* configure's config argument: {} (None) or {cfg}
    dry,          \* configure's dry_run argument
    callNo,       \* how many times configure was invoked with these arguments
    stack,        \* active configure_rec frames, innermost last
    res,          \* the ConfigurationRes accumulator of the running call
    outcome,      \* what the last configure call returned
    faults,       \* external operations that have failed so far
    pre,          \* the durable records when the current call started
    hist,         \* observations of the current call (for the properties)
    walk,         \* a match error on its way up through the nested fields
    http,         \* a request on its way through create_service_fn
    cli,          \* a command line on its way through handle_command
    de            \* an ArgValue on its way through deserialize_struct

vars == <<graph, persisted, replica, configured, recoverable, needsRestart,
          status, root, arg, dry, callNo, stack, res, outcome, faults, pre, hist,
          walk, http, cli, de>>

\* what the configuration calls leave alone
aux == <<walk, http, cli, de>>

durable == <<persisted, replica, configured, recoverable, needsRestart, status>>

-----------------------------------------------------------------------------
(* Bounds of the model *)

MaxFaults == 1
MaxCalls == 2
MaxDepth == 4
MaxSegs == 3
MaxHops == 3
MaxFields == 3

(* Error codes *)
GENERAL_ERROR == 1
FILESYSTEM_ERROR == 2
DOCKER_ERROR == 3
CFG_SPEC_VIOLATION == 4
CFG_RULES_VIOLATION == 5
NOT_FOUND == 6
UNRECOGNIZED_COMMAND == 12

-----------------------------------------------------------------------------
(* The installed apps and the values of the model *)

Apps == {"A", "D", "E"}
Ghost == "G"
AppOrder == <<"A", "D", "E">>

Idx(a) == CHOOSE i \in 1..Len(AppOrder) : AppOrder[i] = a

Null == -1
Ports == 0..3
SpecPorts == 1..3
RulePorts == {1, 2}
RequiredPorts == {1, 3}

Config == [port : Ports, ptr : Ports \cup {Null}]

Cfg(p, q) == [port |-> p, ptr |-> q]

Running == "Running"
Stopped == "Stopped"

-----------------------------------------------------------------------------
(* The registry's view of the dependency graph *)

RECURSIVE SeqOfSet(_, _)
SeqOfSet(S, i) ==
    IF i > Len(AppOrder) THEN <<>>
    ELSE (IF AppOrder[i] \in S THEN <<AppOrder[i]>> ELSE <<>>) \o SeqOfSet(S, i + 1)

\* the registry hands out the dependencies of the app instead
dependents_Dependencies(name) == SeqOfSet(graph[name], 1)

dependents(name) == SeqOfSet({d \in Apps : name \in graph[d]}, 1)

PtrTarget(name) ==
    IF graph[name] = {} THEN Ghost
    ELSE CHOOSE t \in graph[name] : \A u \in graph[name] : Idx(t) <= Idx(u)

RECURSIVE TransDependents(_, _)
TransDependents(S, n) ==
    IF n = 0 THEN S
    ELSE TransDependents(S \cup {d \in Apps : graph[d] \cap S # {}}, n - 1)

AllDependents(name) ==
    TransDependents({d \in Apps : name \in graph[d]}, Cardinality(Apps))

-----------------------------------------------------------------------------
(* Spec, rules and the dependency predicate *)

matches(cfg) == cfg.port \in SpecPorts

\* the update overwrites a field that is not a pointer
update_ClobbersPort(name, cfg) ==
    IF PtrTarget(name) = Ghost THEN cfg
    ELSE [port |-> 0,
          ptr |-> IF persisted[PtrTarget(name)] = {} THEN Null
                  ELSE (CHOOSE c \in persisted[PtrTarget(name)] : TRUE).port]

\* the update derives the pointer field from its previous content
update_Accumulates(name, cfg) ==
    IF PtrTarget(name) = Ghost THEN cfg
    ELSE [cfg EXCEPT !.ptr = IF @ = Null THEN 0 ELSE (@ + 1) % 4]

update(name, cfg) ==
    IF PtrTarget(name) = Ghost THEN cfg
    ELSE [cfg EXCEPT !.ptr =
            IF persisted[PtrTarget(name)] = {} THEN Null
            ELSE (CHOOSE c \in persisted[PtrTarget(name)] : TRUE).port]

\* rand::rngs::StdRng::from_entropy(): the seed is whatever the operating
\* system hands out
from_entropy == 1..3

\* spec.gen: the value is a function of the random source
gen(rng) == Cfg(rng, Null)

GenValues == {gen(rng) : rng \in from_entropy}

Rules == <<"port", "pointer">>

rule_check(rule, cfg, cfgs) ==
    IF rule = "port" THEN cfg.port \in RulePorts
    ELSE cfg.ptr # 0

FirstViolation(cfg, cfgs) ==
    IF \E i \in 1..Len(Rules) : ~rule_check(Rules[i], cfg, cfgs)
    THEN CHOOSE i \in 1..Len(Rules) :
            /\ ~rule_check(Rules[i], cfg, cfgs)
            /\ \A j \in 1..(i - 1) : rule_check(Rules[j], cfg, cfgs)
    ELSE 0

\* D's manifest requires a port of RequiredPorts of its dependency; E's
\* requirement accepts every config
satisfied(name, cfg, dependent, dependent_config) ==
    dependent = "E" \/ cfg.port \in RequiredPorts

-----------------------------------------------------------------------------
(* ConfigurationRes: hashlink maps and sets keep insertion order; inserting
   an existing key replaces it and moves it to the back *)

EmptyRes == [changed |-> <<>>, needs_restart |-> <<>>, stopped |-> <<>>]

SelectSeq2(s, k) == SelectSeq(s, LAMBDA e : e.name # k)

\* an existing key keeps its place
MapInsert_InPlace(m, k, v) ==
    IF \E i \in 1..Len(m) : m[i].name = k
    THEN [i \in 1..Len(m) |-> IF m[i].name = k THEN [name |-> k, val |-> v] ELSE m[i]]
    ELSE Append(m, [name |-> k, val |-> v])

\* the map is started afresh at every insert
MapInsert_Fresh(m, k, v) == <<[name |-> k, val |-> v]>>

MapInsert(m, k, v) == Append(SelectSeq2(m, k), [name |-> k, val |-> v])

Keys(m) == {m[i].name : i \in 1..Len(m)}

Get(m, k) == (CHOOSE i \in 1..Len(m) : m[i].name = k)

KeyOrder(m) == [i \in 1..Len(m) |-> m[i].name]

TaggedDependencyError(dependency, error) ==
    [dependency |-> dependency, error |-> error]

DependencyError(kind, code) == [kind |-> kind, code |-> code]

NoError == DependencyError("none", 0)

-----------------------------------------------------------------------------
(* Frames of configure_rec and what a frame returns *)

NoRet == [kind |-> "none", cfg |-> {}, code |-> 0]
Ok(cfg) == [kind |-> "ok", cfg |-> {cfg}, code |-> 0]
Err(code) == [kind |-> "err", cfg |-> {}, code |-> code]

Frame(name, a) ==
    [name |-> name, pc |-> "enter", arg |-> a, cfg |-> {}, todo |-> <<>>,
     ret |-> NoRet, berr |-> NoError]

Top == stack[Len(stack)]

Depth == Len(stack)

TheCfg(f) == CHOOSE c \in f.cfg : TRUE

SetTop(f) == [stack EXCEPT ![Len(stack)] = f]

\* the frame returns r: to its caller's match (line 205), or out of configure
\* (lines 288-289)
Returned(r) ==
    IF Len(stack) = 1 THEN <<>>
    ELSE [SubSeq(stack, 1, Len(stack) - 1) EXCEPT
            ![Len(stack) - 1].ret = r, ![Len(stack) - 1].pc = "ret"]

\* the error of configure_rec is dropped instead of returned with `?`
Outcome_ErrorDropped(r) ==
    IF Len(stack) = 1 THEN [kind |-> "ok", code |-> 0] ELSE outcome

Outcome(r) ==
    IF Len(stack) = 1 THEN [kind |-> r.kind, code |-> r.code] ELSE outcome

CanFault == faults < MaxFaults

\* an external operation either succeeds or, while the budget lasts, fails
FaultChoice == IF CanFault THEN {FALSE, TRUE} ELSE {FALSE}

Bump(failed) == IF failed THEN faults + 1 ELSE faults

-----------------------------------------------------------------------------
(* configure_rec, lines 150-203: load, candidate, match, update, rules,
   idempotence short-circuit *)

ShouldPersist_Always(dry_run) == TRUE

ShouldPersist_Inverted(dry_run) == dry_run

ShouldPersist(dry_run) == ~dry_run

\* the frame persists before it has visited its dependents
AfterDependents_PersistFirst(todo) ==
    IF ShouldPersist(dry) THEN "write" ELSE "status"

\* where the frame goes once the dependents left to visit are `todo`
AfterDependents(todo) ==
    IF todo # <<>> THEN "loop"
    ELSE IF ShouldPersist(dry) THEN "write" ELSE "status"

\* the previously persisted value is preferred to the supplied one
Candidates_PersistedFirst(name, a) ==
    IF persisted[name] # {} THEN persisted[name]
    ELSE IF a # {} THEN a
    ELSE GenValues

Candidates(name, a) ==
    IF a # {} THEN a
    ELSE IF persisted[name] # {} THEN persisted[name]
    ELSE GenValues

NeedsGen(name, a) == a = {} /\ persisted[name] = {}

\* lines 190-191: the lookup table the rules are given
NewCfgs(name, cfg) == MapInsert(<<>>, name, cfg)

\* every rule is evaluated, also after a violation
RECURSIVE RulesLoop_ChecksAll(_, _, _)
RulesLoop_ChecksAll(rules, cfg, cfgs) ==
    IF rules = <<>> THEN [code |-> 0, evaluated |-> <<>>]
    ELSE LET r == RulesLoop_ChecksAll(Tail(rules), cfg, cfgs)
         IN [code |-> IF rule_check(Head(rules), cfg, cfgs) THEN r.code
                      ELSE CFG_RULES_VIOLATION,
             evaluated |-> <<Head(rules)>> \o r.evaluated]

\* lines 192-195: the rules are checked in turn, and `?` leaves the frame at
\* the first violation
RECURSIVE RulesLoop(_, _, _)
RulesLoop(rules, cfg, cfgs) ==
    IF rules = <<>> THEN [code |-> 0, evaluated |-> <<>>]
    ELSE IF ~rule_check(Head(rules), cfg, cfgs)
    THEN [code |-> CFG_RULES_VIOLATION, evaluated |-> <<Head(rules)>>]
    ELSE LET r == RulesLoop(Tail(rules), cfg, cfgs)
         IN [r EXCEPT !.evaluated = <<Head(rules)>> \o @]

\* the configured flag is not looked at
ShortCircuit_IgnoresConfigured(old, cfg, conf, rec) == old # {} /\ old = {cfg} /\ ~rec

ShortCircuit_RecoverableNotNegated(old, cfg, conf, rec) ==
    old # {} /\ old = {cfg} /\ conf /\ rec

ShortCircuit(old, cfg, conf, rec) == old # {} /\ old = {cfg} /\ conf /\ ~rec

Fail(code, stage, faulted) ==
    [kind |-> "err", code |-> code, cfg |-> {}, stage |-> stage, faulted |-> faulted,
     cand |-> {}]

Pass(kind, cfg) ==
    [kind |-> kind, code |-> 0, cfg |-> {cfg}, stage |-> kind, faulted |-> FALSE,
     cand |-> {}]

\* the timeout of spec.gen is swallowed and a fixed value is used instead
GenTimeout_Swallowed(faulted) ==
    [kind |-> "go", code |-> 0, cfg |-> {Cfg(1, Null)}, stage |-> "gen",
     faulted |-> faulted, cand |-> {}]

\* lines 181-182: spec.gen gives up at its deadline
GenTimeout(faulted) == Fail(CFG_SPEC_VIOLATION, "gen", faulted)

\* the error keeps the code it was made with instead of NOT_FOUND
NotInstalled_NoCode == Fail(GENERAL_ERROR, "installed", FALSE)

\* lines 150-154: the app is not in list_info
NotInstalled == Fail(NOT_FOUND, "installed", FALSE)

\* the app is put in changed before its rules are checked
AfterCandidate_RecordsBeforeRules(name, c) ==
    IF ~matches(c) THEN {Fail(CFG_SPEC_VIOLATION, "matches", FALSE)}
    ELSE LET u == update(name, c) IN
           IF RulesLoop(Rules, u, NewCfgs(name, u)).code # 0
           THEN {[kind |-> "gofail", code |-> CFG_RULES_VIOLATION, cfg |-> {u},
                  stage |-> "rules", faulted |-> FALSE, cand |-> {}]}
           ELSE {Pass("go", u)}

AfterCandidate(name, c) ==
    IF ~matches(c) THEN {Fail(CFG_SPEC_VIOLATION, "matches", FALSE)}
    ELSE (IF CanFault /\ PtrTarget(name) # Ghost
            THEN {Fail(CFG_SPEC_VIOLATION, "update", TRUE)} ELSE {})
         \cup
         (LET u == update(name, c) IN
            IF RulesLoop(Rules, u, NewCfgs(name, u)).code # 0
            THEN {Fail(CFG_RULES_VIOLATION, "rules", FALSE)}
            ELSE IF ShortCircuit(persisted[name], u, configured[name], recoverable[name])
            THEN {Pass("short", u)}
            ELSE {Pass("go", u)}
                 \cup (IF CanFault
                       THEN {[kind |-> "gofail", code |-> GENERAL_ERROR, cfg |-> {u},
                              stage |-> "dependents", faulted |-> TRUE, cand |-> {}]}
                       ELSE {}))

FrameOutcomes(name, a) ==
    (IF name \notin Apps
     THEN {NotInstalled}
          \cup (IF CanFault THEN {Fail(GENERAL_ERROR, "list_info", TRUE)} ELSE {})
     ELSE (IF CanFault THEN {Fail(FILESYSTEM_ERROR, "read", TRUE)} ELSE {})
          \cup (IF CanFault /\ NeedsGen(name, a)
                THEN {GenTimeout(TRUE)} ELSE {})
          \cup UNION {{[o EXCEPT !.cand = {c}] : o \in AfterCandidate(name, c)} :
                         c \in Candidates(name, a)})

Observe(o, name) ==
    [hist EXCEPT
       !.frames = @ + 1,
       !.entered = Append(@, name),
       !.matchFailed = IF o.stage = "matches" /\ Depth > 1
                       THEN @ \cup {<<stack[Depth - 1].name, name>>} ELSE @,
       !.rootStage = IF Depth = 1 THEN o.stage ELSE @,
       !.rootCfg = IF Depth = 1 THEN o.cfg ELSE @,
       !.visited = IF o.kind \in {"go", "gofail"} THEN Append(@, name) ELSE @,
       !.timedOut = o.stage = "gen",
       !.cands = IF o.cand = {} \/ o.kind = "err" THEN {}
                 ELSE {[name |-> name, depth |-> Depth, supplied |-> Top.arg,
                        old |-> persisted[name], cand |-> o.cand]}]

Enter ==
    /\ stack # <<>>
    /\ Top.pc = "enter"
    /\ \E o \in FrameOutcomes(Top.name, Top.arg) :
         /\ faults' = Bump(o.faulted)
         /\ hist' = Observe(o, Top.name)
         /\ res' = IF o.kind \in {"go", "gofail"}
                   THEN [res EXCEPT !.changed = MapInsert(@, Top.name, TheCfg(o))]
                   ELSE res
         /\ IF o.kind = "go"
            THEN /\ stack' = SetTop([Top EXCEPT !.pc = AfterDependents(dependents(Top.name)),
                                                !.cfg = o.cfg,
                                                !.todo = dependents(Top.name)])
                 /\ UNCHANGED outcome
            ELSE /\ stack' = Returned(IF o.kind = "short" THEN Ok(TheCfg(o)) ELSE Err(o.code))
                 /\ outcome' = Outcome(IF o.kind = "short" THEN Ok(TheCfg(o)) ELSE Err(o.code))
    /\ UNCHANGED <<aux, graph, durable, root, arg, dry, callNo, pre>>

-----------------------------------------------------------------------------
(* configure_rec, lines 204-253: the cascade into the dependents *)

\* line 205: the recursive call
CallDependent ==
    /\ stack # <<>>
    /\ Top.pc = "loop"
    /\ Depth < MaxDepth
    /\ stack' = Append(SetTop([Top EXCEPT !.pc = "call"]), Frame(Head(Top.todo), {}))
    /\ UNCHANGED <<aux, graph, durable, root, arg, dry, callNo, res, outcome, faults, pre, hist>>

\* the recursion never returns: the futures pile up until the process dies
StackExhausted ==
    /\ stack # <<>>
    /\ Top.pc = "loop"
    /\ Depth >= MaxDepth
    /\ stack' = <<>>
    /\ outcome' = [kind |-> "diverged", code |-> 0]
    /\ UNCHANGED <<aux, graph, durable, root, arg, dry, callNo, res, faults, pre, hist>>

\* lines 206-225: the dependent's frame returned Ok(dependent_config)
DependentOk ==
    /\ stack # <<>>
    /\ Top.pc = "ret"
    /\ Top.ret.kind = "ok"
    /\ \E failed \in FaultChoice :
         /\ faults' = Bump(failed)
         /\ IF failed
            THEN /\ stack' = Returned(Err(GENERAL_ERROR))
                 /\ outcome' = Outcome(Err(GENERAL_ERROR))
            ELSE /\ UNCHANGED outcome
                 /\ IF Top.name \in graph[Head(Top.todo)]
                       /\ ~satisfied(Top.name, TheCfg(Top), Head(Top.todo), TheCfg(Top.ret))
                    THEN /\ stack' = SetTop([Top EXCEPT
                                !.pc = "broken", !.ret = NoRet,
                                !.berr = DependencyError("ConfigUnsatisfied", 0)])
                         /\ hist' = [hist EXCEPT !.rejected =
                                        @ \cup {<<Top.name, Head(Top.todo)>>}]
                    ELSE /\ stack' = SetTop([Top EXCEPT
                                !.pc = AfterDependents(Tail(Top.todo)), !.ret = NoRet,
                                !.todo = Tail(@)])
                         /\ UNCHANGED hist
         /\ (failed => UNCHANGED hist)
    /\ UNCHANGED <<aux, graph, durable, root, arg, dry, callNo, res, pre>>

IsValidationCode_AnyCode(code) == TRUE

\* a spec violation of the dependent is not told from any other failure
IsValidationCode_RulesOnly(code) == code = CFG_RULES_VIOLATION

IsValidationCode(code) == code = CFG_RULES_VIOLATION \/ code = CFG_SPEC_VIOLATION

\* lines 226-251: the dependent's frame returned Err(e)
DependentErr ==
    /\ stack # <<>>
    /\ Top.pc = "ret"
    /\ Top.ret.kind = "err"
    /\ IF IsValidationCode(Top.ret.code)
       THEN \E failed \in (IF dry THEN {FALSE} ELSE FaultChoice) :
              /\ faults' = Bump(failed)
              /\ IF failed
                 THEN /\ stack' = Returned(Err(GENERAL_ERROR))
                      /\ outcome' = Outcome(Err(GENERAL_ERROR))
                      /\ UNCHANGED configured
                 ELSE /\ configured' = IF dry THEN configured
                                       ELSE [configured EXCEPT ![Head(Top.todo)] = FALSE]
                      /\ stack' = SetTop([Top EXCEPT
                            !.pc = "broken", !.ret = NoRet,
                            !.berr = DependencyError("PointerUpdateError", Top.ret.code)])
                      /\ UNCHANGED outcome
       ELSE /\ stack' = SetTop([Top EXCEPT
                            !.pc = "broken", !.ret = NoRet,
                            !.berr = DependencyError("Other", Top.ret.code)])
            /\ UNCHANGED <<configured, outcome, faults>>
    /\ hist' = [hist EXCEPT !.timedOut = FALSE]
    /\ UNCHANGED <<aux, graph, persisted, replica, recoverable, needsRestart, status,
                   root, arg, dry, callNo, res, pre>>

-----------------------------------------------------------------------------
(* handle_broken_dependent, lines 113-141 *)

\* the dependency a transitive dependent is stopped for
StoppedFor(x, broken) ==
    CHOOSE t \in graph[x] \cap (AllDependents(broken) \cup {broken}) :
        \A u \in graph[x] \cap (AllDependents(broken) \cup {broken}) : Idx(t) <= Idx(u)

RECURSIVE StopAll(_, _, _)
StopAll(m, todo, broken) ==
    IF todo = <<>> THEN m
    ELSE StopAll(MapInsert(m, Head(todo),
                    TaggedDependencyError(StoppedFor(Head(todo), broken),
                                          DependencyError("NotRunning", 0))),
                 Tail(todo), broken)

\* crate::control::stop_dependents: everything that transitively depends on
\* `broken` and is not stopped yet is stopped and recorded
ToStop(broken) == {x \in AllDependents(broken) : status[x] # Stopped}

stop_dependents ==
    /\ stack # <<>>
    /\ Top.pc = "broken"
    /\ \E failed \in FaultChoice :
         /\ faults' = Bump(failed)
         /\ IF failed
            THEN /\ stack' = Returned(Err(DOCKER_ERROR))
                 /\ outcome' = Outcome(Err(DOCKER_ERROR))
                 /\ UNCHANGED <<status, res>>
            ELSE /\ status' = IF dry THEN status
                              ELSE [x \in Apps |->
                                      IF x \in ToStop(Head(Top.todo)) THEN Stopped
                                      ELSE status[x]]
                 /\ res' = [res EXCEPT !.stopped =
                              StopAll(@, SeqOfSet(ToStop(Head(Top.todo)), 1), Head(Top.todo))]
                 /\ stack' = SetTop([Top EXCEPT !.pc = "stopself"])
                 /\ UNCHANGED outcome
    /\ UNCHANGED <<aux, graph, persisted, replica, configured, recoverable, needsRestart,
                   root, arg, dry, callNo, pre, hist>>

RecordsBroken_Inverted(st) == st = Stopped

\* the dependent is stopped and recorded whatever its status
RecordsBroken_Always(st) == TRUE

RecordsBroken(st) == st # Stopped

\* lines 127-140: stop the broken dependent itself and record it
stop_app ==
    /\ stack # <<>>
    /\ Top.pc = "stopself"
    /\ \E failed \in FaultChoice :
         /\ faults' = Bump(failed)
         /\ IF failed
            THEN /\ stack' = Returned(Err(DOCKER_ERROR))
                 /\ outcome' = Outcome(Err(DOCKER_ERROR))
                 /\ UNCHANGED <<status, res>>
            ELSE /\ IF RecordsBroken(status[Head(Top.todo)])
                    THEN /\ status' = IF dry THEN status
                                      ELSE [status EXCEPT ![Head(Top.todo)] = Stopped]
                         /\ res' = [res EXCEPT !.stopped =
                                      MapInsert(@, Head(Top.todo),
                                         TaggedDependencyError(Top.name, Top.berr))]
                    ELSE UNCHANGED <<status, res>>
                 /\ stack' = SetTop([Top EXCEPT
                            !.pc = AfterDependents(Tail(Top.todo)),
                            !.todo = Tail(@), !.berr = NoError])
                 /\ UNCHANGED outcome
    /\ UNCHANGED <<aux, graph, persisted, replica, configured, recoverable, needsRestart,
                   root, arg, dry, callNo, pre, hist>>

-----------------------------------------------------------------------------
(* configure_rec, lines 254-284: persistence and restart bookkeeping *)

PersistFailed ==
    [hist EXCEPT !.persistFailed = @ \cup {[depth |-> Depth, name |-> Top.name]}]

\* lines 255-257: write-then-commit of apps/<name>/config.yaml
Write ==
    /\ stack # <<>>
    /\ Top.pc = "write"
    /\ \E failed \in FaultChoice :
         /\ faults' = Bump(failed)
         /\ hist' = IF failed THEN PersistFailed ELSE hist
         /\ IF failed
            THEN /\ stack' = Returned(Err(FILESYSTEM_ERROR))
                 /\ outcome' = Outcome(Err(FILESYSTEM_ERROR))
                 /\ UNCHANGED persisted
            ELSE /\ persisted' = [persisted EXCEPT ![Top.name] = Top.cfg]
                 /\ stack' = SetTop([Top EXCEPT !.pc = "copy"])
                 /\ UNCHANGED outcome
    /\ UNCHANGED <<aux, graph, replica, configured, recoverable, needsRestart, status,
                   root, arg, dry, callNo, res, pre>>

\* lines 258-271: the copy into the app's volume
Copy ==
    /\ stack # <<>>
    /\ Top.pc = "copy"
    /\ \E failed \in FaultChoice :
         /\ faults' = Bump(failed)
         /\ hist' = IF failed THEN PersistFailed ELSE hist
         /\ IF failed
            THEN /\ stack' = Returned(Err(FILESYSTEM_ERROR))
                 /\ outcome' = Outcome(Err(FILESYSTEM_ERROR))
                 /\ UNCHANGED replica
            ELSE /\ replica' = [replica EXCEPT ![Top.name] = persisted[Top.name]]
                 /\ stack' = SetTop([Top EXCEPT !.pc = "setconf"])
                 /\ UNCHANGED outcome
    /\ UNCHANGED <<aux, graph, persisted, configured, recoverable, needsRestart, status,
                   root, arg, dry, callNo, res, pre>>

\* line 272
set_configured ==
    /\ stack # <<>>
    /\ Top.pc = "setconf"
    /\ \E failed \in FaultChoice :
         /\ faults' = Bump(failed)
         /\ hist' = IF failed THEN PersistFailed ELSE hist
         /\ IF failed
            THEN /\ stack' = Returned(Err(GENERAL_ERROR))
                 /\ outcome' = Outcome(Err(GENERAL_ERROR))
                 /\ UNCHANGED configured
            ELSE /\ configured' = [configured EXCEPT ![Top.name] = TRUE]
                 /\ stack' = SetTop([Top EXCEPT !.pc = "setrec"])
                 /\ UNCHANGED outcome
    /\ UNCHANGED <<aux, graph, persisted, replica, recoverable, needsRestart, status,
                   root, arg, dry, callNo, res, pre>>

\* line 273
set_recoverable ==
    /\ stack # <<>>
    /\ Top.pc = "setrec"
    /\ \E failed \in FaultChoice :
         /\ faults' = Bump(failed)
         /\ hist' = IF failed THEN PersistFailed ELSE hist
         /\ IF failed
            THEN /\ stack' = Returned(Err(GENERAL_ERROR))
                 /\ outcome' = Outcome(Err(GENERAL_ERROR))
                 /\ UNCHANGED recoverable
            ELSE /\ recoverable' = [recoverable EXCEPT ![Top.name] = FALSE]
                 /\ stack' = SetTop([Top EXCEPT !.pc = "status"])
                 /\ UNCHANGED outcome
    /\ UNCHANGED <<aux, graph, persisted, replica, configured, needsRestart, status,
                   root, arg, dry, callNo, res, pre>>

SetInsert(s, k) == Append(SelectSeq(s, LAMBDA e : e # k), k)

NeedsRestart_Always(st) == TRUE

\* line 275: the app is not stopped
NeedsRestart(st) == st # Stopped

\* lines 275-283: restart bookkeeping, and the frame returns Ok(config)
Finish ==
    /\ stack # <<>>
    /\ Top.pc = "status"
    /\ \E failed \in FaultChoice :
         /\ faults' = Bump(failed)
         /\ IF failed
            THEN /\ stack' = Returned(Err(DOCKER_ERROR))
                 /\ outcome' = Outcome(Err(DOCKER_ERROR))
                 /\ UNCHANGED <<needsRestart, res>>
            ELSE /\ IF NeedsRestart(status[Top.name])
                    THEN /\ needsRestart' = IF dry THEN needsRestart
                                            ELSE [needsRestart EXCEPT ![Top.name] = TRUE]
                         /\ res' = [res EXCEPT !.needs_restart = SetInsert(@, Top.name)]
                    ELSE UNCHANGED <<needsRestart, res>>
                 /\ stack' = Returned(Ok(TheCfg(Top)))
                 /\ outcome' = Outcome(Ok(TheCfg(Top)))
         /\ hist' = IF failed THEN hist
                    ELSE [hist EXCEPT !.step10 = @ \cup {<<Top.name, status[Top.name]>>}]
    /\ UNCHANGED <<aux, graph, persisted, replica, configured, recoverable, status,
                   root, arg, dry, callNo, pre>>

-----------------------------------------------------------------------------
(* configure, lines 107-112 and 287-289, and its callers *)

Snapshot ==
    [persisted |-> persisted, replica |-> replica, configured |-> configured,
     recoverable |-> recoverable, needsRestart |-> needsRestart, status |-> status]

NoHist ==
    [frames |-> 0, entered |-> <<>>, matchFailed |-> {}, rootStage |-> "none",
     rootCfg |-> {}, rejected |-> {}, persistFailed |-> {},
     visited |-> <<>>, cands |-> {}, step10 |-> {}, timedOut |-> FALSE,
     removed |-> "", prevRemoved |-> "", faulted |-> FALSE, updates |-> <<>>,
     prevOutcome |-> "none", prevChanged |-> <<>>, prevFiles |-> persisted,
     ref |-> {}]

\* the caller invokes configure again with the same arguments
CallAgain ==
    /\ stack = <<>>
    /\ outcome.kind \in {"ok", "crashed"}
    /\ callNo < MaxCalls
    /\ callNo' = callNo + 1
    /\ stack' = <<Frame(root, arg)>>
    /\ res' = EmptyRes
    /\ outcome' = [kind |-> "running", code |-> 0]
    /\ pre' = Snapshot
    /\ hist' = [NoHist EXCEPT !.prevOutcome = outcome.kind, !.prevChanged = res.changed,
                               !.prevFiles = pre.persisted, !.ref = hist.ref]
    /\ UNCHANGED <<aux, graph, durable, root, arg, dry, faults>>

\* the process is killed in the middle of a call
Crash ==
    /\ stack # <<>>
    /\ callNo = 1
    /\ hist.ref # {}
    /\ stack' = <<>>
    /\ outcome' = [kind |-> "crashed", code |-> 0]
    /\ UNCHANGED <<aux, graph, durable, root, arg, dry, callNo, res, faults, pre, hist>>

\* the reference run is over: its final records are kept in hist.ref, the
\* records are put back to what they were, and the same call starts again,
\* this time exposed to a crash
Replay ==
    /\ stack = <<>>
    /\ callNo = 1
    /\ hist.ref = {}
    /\ outcome.kind \in {"ok", "err"}
    /\ persisted' = pre.persisted
    /\ replica' = pre.replica
    /\ configured' = pre.configured
    /\ recoverable' = pre.recoverable
    /\ needsRestart' = pre.needsRestart
    /\ status' = pre.status
    /\ stack' = <<Frame(root, arg)>>
    /\ res' = EmptyRes
    /\ outcome' = [kind |-> "running", code |-> 0]
    /\ hist' = [NoHist EXCEPT !.prevFiles = pre.persisted, !.ref = {Snapshot}]
    /\ UNCHANGED <<aux, graph, root, arg, dry, callNo, faults, pre>>

-----------------------------------------------------------------------------
(* remove, lines 292-315 *)

Exists_Always(file) == TRUE

\* Path::exists
Exists(file) == file # {}

\* tokio::fs::remove_file: an error when the file is missing or the
\* operation fails
remove_file(file, failed) ==
    IF file = {} \/ failed THEN [ok |-> FALSE, file |-> file]
    ELSE [ok |-> TRUE, file |-> {}]

Kept(file) == [ok |-> TRUE, file |-> file]

remove ==
    /\ stack = <<>>
    /\ callNo < MaxCalls
    /\ \E name \in Apps, failAt \in (IF CanFault THEN 0..3 ELSE {0}) :
         /\ failAt = 1 => persisted[name] # {}
         /\ failAt = 2 => replica[name] # {}
         /\ LET r1 == IF Exists(persisted[name])
                      THEN remove_file(persisted[name], failAt = 1)
                      ELSE Kept(persisted[name])
                r2 == IF ~r1.ok THEN [ok |-> FALSE, file |-> replica[name]]
                      ELSE IF Exists(replica[name])
                      THEN remove_file(replica[name], failAt = 2)
                      ELSE Kept(replica[name])
                done == r1.ok /\ r2.ok /\ failAt # 3
            IN /\ persisted' = [persisted EXCEPT ![name] = r1.file]
               /\ replica' = [replica EXCEPT ![name] = r2.file]
               /\ configured' = IF done THEN [configured EXCEPT ![name] = FALSE]
                                ELSE configured
               /\ outcome' = IF done THEN [kind |-> "ok", code |-> 0]
                             ELSE IF r1.ok /\ r2.ok
                             THEN [kind |-> "err", code |-> GENERAL_ERROR]
                             ELSE [kind |-> "err", code |-> FILESYSTEM_ERROR]
               /\ faults' = Bump(failAt # 0)
               /\ hist' = [NoHist EXCEPT !.prevOutcome = outcome.kind,
                                          !.prevRemoved = hist.removed,
                                          !.removed = name,
                                          !.faulted = failAt # 0]
    /\ callNo' = callNo + 1
    /\ pre' = Snapshot
    /\ UNCHANGED <<aux, graph, recoverable, needsRestart, status, root, arg, dry,
                   stack, res>>

-----------------------------------------------------------------------------
(* NoMatchWithPath, lines 43-64 *)

\* NoMatchWithPath::new
new(error) == [path |-> <<>>, error |-> error]

\* the segment is put in front of the path
prepend_Front(self, seg) == [self EXCEPT !.path = <<seg>> \o @]

\* NoMatchWithPath::prepend: self.path.push(seg)
prepend(self, seg) == [self EXCEPT !.path = Append(@, seg)]

RECURSIVE rev(_)
rev(s) == IF s = <<>> THEN <<>> ELSE Append(rev(Tail(s)), Head(s))

RECURSIVE join(_, _)
join(s, sep) ==
    IF s = <<>> THEN ""
    ELSE IF Len(s) = 1 THEN s[1]
    ELSE s[1] \o sep \o join(Tail(s), sep)

\* impl Display for NoMatchWithPath
Display(self) == join(rev(self.path), ".") \o ": " \o self.error

Segments == {"db", "port", "0"}

MatchErrors == {"Invalid Type: expected number, actual: string",
                "Field Is Not Nullable"}

RECURSIVE Paths(_)
Paths(n) ==
    IF n = 0 THEN {<<>>}
    ELSE Paths(n - 1) \cup {Append(q, seg) : q \in Paths(n - 1), seg \in Segments}

NoWalk == [err |-> new("none"), pending |-> <<>>, fields |-> <<>>]

\* a recursive return of matches: the segment just left is prepended
Bubble ==
    /\ walk.pending # <<>>
    /\ walk' = [walk EXCEPT !.err = prepend(@, Head(walk.pending)),
                            !.pending = Tail(@)]
    /\ UNCHANGED <<graph, durable, root, arg, dry, callNo, stack, res, outcome,
                   faults, pre, hist, http, cli, de>>

-----------------------------------------------------------------------------
(* api/mod.rs: the tree of Apis.  An Api is identified by the chain of
   command names that leads to it from the root Api *)

Apis == << <<>>, <<"a">>, <<"b">>, <<"a", "b">>, <<"a", "b", "a">> >>

Tree == {Apis[i] : i \in 1..Len(Apis)}

ApiRoot == <<>>

\* Api::name
NameOf(cmd) == IF cmd = <<>> THEN "appmgr" ELSE cmd[Len(cmd)]

\* Api::commands, in the order of the slice
commands(cmd) ==
    SelectSeq(Apis, LAMBDA c : Len(c) = Len(cmd) + 1 /\ SubSeq(c, 1, Len(cmd)) = cmd)

\* cmds.iter().filter(|cmd| cmd.name() == cmd_str).next()
FindCommand(cmds, cmd_str) ==
    LET found == SelectSeq(cmds, LAMBDA c : NameOf(c) = cmd_str)
    IN IF found = <<>> THEN {} ELSE {Head(found)}

-----------------------------------------------------------------------------
(* api/hyper_helpers.rs, lines 12-75.  A &str is the sequence of its
   characters *)

\* str::split: the pieces between the separators, empty pieces included
RECURSIVE split(_, _)
split(s, sep) ==
    IF \A i \in 1..Len(s) : s[i] # sep THEN <<s>>
    ELSE LET i == CHOOSE i \in 1..Len(s) :
                      s[i] = sep /\ \A j \in 1..(i - 1) : s[j] # sep
         IN <<SubSeq(s, 1, i - 1)>> \o split(SubSeq(s, i + 1, Len(s)), sep)

\* Iterator::next on the pieces: the piece and the rest of the iterator
IterNext(it) == IF it = <<>> THEN {} ELSE {Head(it)}

\* handle_subrequest: the arguments of the handle_request it returns, if any
handle_subrequest(cmd, path) ==
    IF path = {} THEN {}
    ELSE LET path_iter == split(CHOOSE p \in path : TRUE, "/")
             cmd_str == join(Head(path_iter), "")
             sub == FindCommand(commands(cmd), cmd_str)
         IN IF sub = {} THEN {}
            ELSE {[api |-> CHOOSE c \in sub : TRUE,
                   path |-> IterNext(Tail(path_iter))]}

Response(kind, cmd) == [kind |-> kind, api |-> cmd]

NoHttp == [segs |-> <<>>, uri |-> <<>>, query |-> TRUE, impls |-> {},
           invalid |-> {}, pc |-> "idle", api |-> ApiRoot, path |-> {},
           response |-> Response("none", ApiRoot)]

\* create_service_fn up to its call of handle_request
create_service_fn ==
    /\ http.pc = "new"
    /\ http' = IF ~http.query
               THEN [http EXCEPT !.pc = "done",
                                 !.response = Response("bad_request", ApiRoot)]
               ELSE [http EXCEPT !.pc = "handle",
                                 !.api = ApiRoot,
                                 !.path = {http.uri}]
    /\ UNCHANGED <<graph, durable, root, arg, dry, callNo, stack, res, outcome,
                   faults, pre, hist, walk, cli, de>>

\* one call of handle_request
handle_request ==
    /\ http.pc = "handle"
    /\ LET sub == handle_subrequest(http.api, http.path)
       IN http' =
            IF http.api \in http.invalid
            THEN [http EXCEPT !.pc = "done",
                              !.response = Response("bad_request", http.api)]
            ELSE IF sub # {}
            THEN [http EXCEPT !.api = (CHOOSE r \in sub : TRUE).api,
                              !.path = (CHOOSE r \in sub : TRUE).path]
            ELSE IF http.api \in http.impls
            THEN [http EXCEPT !.pc = "done",
                              !.response = Response("hyper_impl", http.api)]
            ELSE [http EXCEPT !.pc = "done",
                              !.response = Response("not_found", http.api)]
    /\ UNCHANGED <<graph, durable, root, arg, dry, callNo, stack, res, outcome,
                   faults, pre, hist, walk, cli, de>>

SegmentNames == {"a", "b", "x"}

RECURSIVE Chains(_)
Chains(n) ==
    IF n = 0 THEN {<<>>}
    ELSE Chains(n - 1) \cup {Append(q, seg) : q \in Chains(n - 1), seg \in SegmentNames}

\* the URI path /c1/c2/.../cn; "/" for no segment
RECURSIVE Slashed(_)
Slashed(segs) ==
    IF segs = <<>> THEN <<>> ELSE <<"/", Head(segs)>> \o Slashed(Tail(segs))

UriPath(segs) == IF segs = <<>> THEN <<"/">> ELSE Slashed(segs)

-----------------------------------------------------------------------------
(* api/clap_helpers.rs, lines 20-32 and 97-139.  The ArgMatches of a command
   is the chain of subcommand names clap matched below it *)

\* the front of the vector instead of its end
handle_command_rec_Front(cmd, full_command) == <<cmd>> \o full_command

\* handle_command_rec: full_command.push(&*api)
handle_command_rec(cmd, full_command) == Append(full_command, cmd)

\* ArgMatches::subcommand: the name and the matches of the subcommand, if any
subcommand(arg_matches) ==
    IF arg_matches = <<>> THEN {}
    ELSE {[command |-> Head(arg_matches), sub_m |-> Tail(arg_matches)]}

Event(kind, cmd, full_command) ==
    [kind |-> kind, api |-> cmd, full_command |-> full_command]

NoCli == [args |-> <<>>, hooks |-> <<>>, impls |-> {}, pc |-> "idle",
          api |-> ApiRoot, matches |-> <<>>, full_command |-> <<>>,
          log |-> <<>>, result |-> [kind |-> "none", code |-> 0]]

\* run_cli up to its call of handle_command
run_cli ==
    /\ cli.pc = "new"
    /\ cli' = [cli EXCEPT !.pc = "run",
                          !.api = ApiRoot,
                          !.matches = cli.args,
                          !.full_command = <<>>]
    /\ UNCHANGED <<graph, durable, root, arg, dry, callNo, stack, res, outcome,
                   faults, pre, hist, walk, http, de>>

\* handle_command_base
handle_command_base(c) ==
    IF c.api \in c.impls
    THEN [c EXCEPT !.pc = "done",
                   !.log = Append(@, Event("clap_impl", c.api, c.full_command)),
                   !.result = [kind |-> "ok", code |-> 0]]
    ELSE [c EXCEPT !.pc = "done",
                   !.result = [kind |-> "err", code |-> UNRECOGNIZED_COMMAND]]

\* one call of handle_command
handle_command ==
    /\ cli.pc = "run"
    /\ LET sc == subcommand(cli.matches)
           sub_cmd == IF sc = {} THEN {}
                      ELSE FindCommand(commands(cli.api), (CHOOSE m \in sc : TRUE).command)
           hook == cli.hooks[cli.api]
       IN cli' =
            IF sc # {} /\ sub_cmd # {}
            THEN IF hook = "err"
                 THEN [cli EXCEPT !.pc = "done",
                                  !.log = Append(@, Event("clap_pre_hook", cli.api, <<>>)),
                                  !.result = [kind |-> "err", code |-> GENERAL_ERROR]]
                 ELSE [cli EXCEPT !.log = IF hook = "ok"
                                          THEN Append(@, Event("clap_pre_hook", cli.api, <<>>))
                                          ELSE @,
                                  !.full_command =
                                      handle_command_rec(CHOOSE c \in sub_cmd : TRUE, @),
                                  !.api = CHOOSE c \in sub_cmd : TRUE,
                                  !.matches = (CHOOSE m \in sc : TRUE).sub_m]
            ELSE handle_command_base(cli)
    /\ UNCHANGED <<graph, durable, root, arg, dry, callNo, stack, res, outcome,
                   faults, pre, hist, walk, http, de>>

Hooks == {"none", "ok", "err"}

-----------------------------------------------------------------------------
(* api/arg_value.rs, lines 460-506.  An ArgValue::Map is a function from its
   keys to its values *)

FieldNames == <<"f1", "f2", "f3", "f4", "f5">>

\* the fields the struct declares, in declaration order
fields == SubSeq(FieldNames, 1, MaxFields)

MapKeys == {fields[i] : i \in 1..Len(fields)} \cup {"other"}

MapValues == {"1", "2"}

\* LinkedHashMap::get
get(m, k) == IF k \in DOMAIN m THEN {m[k]} ELSE {}

Str(s) == [kind |-> "Str", m |-> <<>>, s |-> s]
Arr == [kind |-> "Arr", m |-> <<>>, s |-> ""]
Map(m) == [kind |-> "Map", m |-> m, s |-> ""]

NoDe == [self |-> Arr, pc |-> "idle", iter |-> <<>>, slot |-> {}, key |-> "",
         visited |-> <<>>, result |-> "none"]

\* deserialize_struct: the match of lines 502-505
deserialize_struct ==
    /\ de.pc = "new"
    /\ de' = IF de.self.kind = "Map"
             THEN [de EXCEPT !.pc = "next_key", !.iter = fields, !.slot = {}]
             ELSE [de EXCEPT !.pc = "done", !.result = "NotMap"]
    /\ UNCHANGED <<graph, durable, root, arg, dry, callNo, stack, res, outcome,
                   faults, pre, hist, walk, http, cli>>

\* MapAccess::next_key_seed, called by the visitor until it returns None
next_key_seed ==
    /\ de.pc = "next_key"
    /\ de' = IF de.iter # <<>>
             THEN LET k == Head(de.iter)
                      v == get(de.self.m, k)
                  IN IF v # {}
                     THEN [de EXCEPT !.iter = Tail(@), !.slot = v, !.key = k,
                                     !.pc = "next_value"]
                     ELSE [de EXCEPT !.iter = Tail(@), !.pc = "done", !.result = "ok"]
             ELSE [de EXCEPT !.pc = "done", !.result = "ok"]
    /\ UNCHANGED <<graph, durable, root, arg, dry, callNo, stack, res, outcome,
                   faults, pre, hist, walk, http, cli>>

\* MapAccess::next_value_seed, called by the visitor after each key
next_value_seed ==
    /\ de.pc = "next_value"
    /\ de' = [de EXCEPT !.slot = {},
                        !.visited = Append(@, <<de.key, CHOOSE v \in de.slot : TRUE>>),
                        !.pc = "next_key"]
    /\ UNCHANGED <<graph, durable, root, arg, dry, callNo, stack, res, outcome,
                   faults, pre, hist, walk, http, cli>>

-----------------------------------------------------------------------------
(* The initial states: a dependency graph, the records of the installed
   apps, and the arguments of the call *)

Chain == [a \in Apps |-> IF a = "D" THEN {"A"} ELSE IF a = "E" THEN {"D"} ELSE {}]
Fan == [a \in Apps |-> IF a = "A" THEN {} ELSE {"A"}]
Diamond == [a \in Apps |-> IF a = "D" THEN {"A"} ELSE IF a = "E" THEN {"A", "D"} ELSE {}]
Cycle == [a \in Apps |-> IF a = "A" THEN {"D"} ELSE IF a = "D" THEN {"A"} ELSE {}]

Solo == [a \in Apps |-> {}]

Graphs == {Chain, Fan, Diamond, Cycle, Solo}

InitPorts == [a \in Apps |-> IF a = "A" THEN {Null, 1}
                             ELSE IF a = "D" THEN {Null, 0, 1} ELSE {1}]
ArgPorts == {Null, 0, 2, 3}
Roots == {"A", "D", Ghost}

PortOf(x) == IF x = {} THEN Null ELSE (CHOOSE c \in x : TRUE).port

\* the config files as a run of the program leaves them: the pointer field
\* holds the target's port
FilesOf(g, ports) ==
    [a \in Apps |->
       IF ports[a] = Null THEN {}
       ELSE {Cfg(ports[a],
                 IF g[a] = {} THEN Null
                 ELSE LET t == CHOOSE t \in g[a] : \A u \in g[a] : Idx(t) <= Idx(u)
                      IN IF ports[t] = Null THEN Null ELSE ports[t])}]

\* E keeps a tidy record; A and D take every combination of the flags
InitFlags(a, file) ==
    IF file = {} THEN {<<FALSE, FALSE>>}
    ELSE IF a = "E" \/ ~matches(CHOOSE c \in file : TRUE) THEN {<<TRUE, FALSE>>}
    ELSE {<<TRUE, FALSE>>, <<FALSE, FALSE>>, <<TRUE, TRUE>>}

InitStatus == [a \in Apps |-> IF a = "E" THEN {Running} ELSE {Running, Stopped}]

InitApps ==
    /\ graph \in Graphs
    /\ \E ports \in [Apps -> Ports \cup {Null}] :
         /\ \A a \in Apps : ports[a] \in InitPorts[a]
         /\ persisted = FilesOf(graph, ports)
    /\ replica = persisted
    /\ configured \in [Apps -> BOOLEAN]
    /\ recoverable \in [Apps -> BOOLEAN]
    /\ \A a \in Apps : <<configured[a], recoverable[a]>> \in InitFlags(a, persisted[a])
    /\ needsRestart = [a \in Apps |-> FALSE]
    /\ status \in [Apps -> {Running, Stopped}]
    /\ \A a \in Apps : status[a] \in InitStatus[a]

InitCall ==
    /\ callNo = 1
    /\ stack = <<Frame(root, arg)>>
    /\ res = EmptyRes
    /\ outcome = [kind |-> "running", code |-> 0]
    /\ pre = Snapshot
    /\ hist = NoHist
    /\ walk = NoWalk
    /\ http = NoHttp
    /\ cli = NoCli
    /\ de = NoDe

Init ==
    /\ InitApps
    /\ root \in Roots
    /\ arg \in {IF p = Null THEN {} ELSE {Cfg(p, Null)} : p \in ArgPorts}
    /\ dry \in BOOLEAN
    /\ faults = 0
    /\ InitCall

Next ==
    \/ Enter
    \/ CallDependent
    \/ StackExhausted
    \/ DependentOk
    \/ DependentErr
    \/ stop_dependents
    \/ stop_app
    \/ Write
    \/ Copy
    \/ set_configured
    \/ set_recoverable
    \/ Finish
    \/ CallAgain

Spec == Init /\ [][Next]_vars

\* the calls whose outcome does not depend on chance: every app has a config
\* file, a value is supplied, and no external operation fails
InitCrash ==
    /\ InitApps
    /\ \A a \in Apps : persisted[a] # {}
    /\ root = "A"
    /\ arg = {Cfg(2, Null)}
    /\ dry = FALSE
    /\ InitCall
    /\ faults = MaxFaults

NextCrash == Next \/ Crash \/ Replay

CrashSpec == InitCrash /\ [][NextCrash]_vars

\* the calls that generate the root's value: it has no config file and none
\* is supplied; no external operation fails
InitGen ==
    /\ InitApps
    /\ root \in {"A", "D"}
    /\ persisted[root] = {}
    /\ arg = {}
    /\ dry = FALSE
    /\ InitCall
    /\ faults = MaxFaults

NextGen == Next \/ Replay

GenSpec == InitGen /\ [][NextGen]_vars

\* remove called on its own, once and again
InitRemove ==
    /\ InitApps
    /\ root = Ghost
    /\ arg = {}
    /\ dry = FALSE
    /\ callNo = 0
    /\ stack = <<>>
    /\ res = EmptyRes
    /\ outcome = [kind |-> "none", code |-> 0]
    /\ faults = 0
    /\ pre = Snapshot
    /\ hist = NoHist
    /\ walk = NoWalk
    /\ http = NoHttp
    /\ cli = NoCli
    /\ de = NoDe

NextRemove == remove

RemoveSpec == InitRemove /\ [][NextRemove]_vars

\* line 187 on its own: spec.update applied to the value again, the configs
\* of the other apps staying as they are
Reupdate ==
    /\ stack = <<>>
    /\ arg # {}
    /\ Len(hist.updates) <= MaxCalls
    /\ arg' = {update(root, CHOOSE c \in arg : TRUE)}
    /\ hist' = [hist EXCEPT !.updates = Append(@, update(root, CHOOSE c \in arg : TRUE))]
    /\ UNCHANGED <<aux, graph, durable, root, dry, callNo, stack, res, outcome,
                   faults, pre>>

\* every app, every value and every state of the config files
InitUpdate ==
    /\ InitApps
    /\ root \in Apps
    /\ arg \in {{v} : v \in Config}
    /\ dry = FALSE
    /\ callNo = 0
    /\ stack = <<>>
    /\ res = EmptyRes
    /\ outcome = [kind |-> "none", code |-> 0]
    /\ faults = 0
    /\ pre = Snapshot
    /\ hist = [NoHist EXCEPT !.updates = <<CHOOSE c \in arg : TRUE>>]
    /\ walk = NoWalk
    /\ http = NoHttp
    /\ cli = NoCli
    /\ de = NoDe

NextUpdate == Reupdate

UpdateSpec == InitUpdate /\ [][NextUpdate]_vars

\* a match error at the end of every path of at most MaxSegs segments
InitPath ==
    /\ graph = Solo
    /\ persisted = [a \in Apps |-> {}]
    /\ replica = persisted
    /\ configured = [a \in Apps |-> FALSE]
    /\ recoverable = [a \in Apps |-> FALSE]
    /\ needsRestart = [a \in Apps |-> FALSE]
    /\ status = [a \in Apps |-> Stopped]
    /\ root = Ghost
    /\ arg = {}
    /\ dry = FALSE
    /\ callNo = 0
    /\ stack = <<>>
    /\ res = EmptyRes
    /\ outcome = [kind |-> "none", code |-> 0]
    /\ faults = 0
    /\ pre = Snapshot
    /\ hist = NoHist
    /\ \E f \in Paths(MaxSegs), e \in MatchErrors :
         walk = [err |-> new(e), pending |-> rev(f), fields |-> f]
    /\ http = NoHttp
    /\ cli = NoCli
    /\ de = NoDe

NextPath == Bubble

PathSpec == InitPath /\ [][NextPath]_vars

\* no configuration call is under way
Quiet ==
    /\ graph = Solo
    /\ persisted = [a \in Apps |-> {}]
    /\ replica = persisted
    /\ configured = [a \in Apps |-> FALSE]
    /\ recoverable = [a \in Apps |-> FALSE]
    /\ needsRestart = [a \in Apps |-> FALSE]
    /\ status = [a \in Apps |-> Stopped]
    /\ root = Ghost
    /\ arg = {}
    /\ dry = FALSE
    /\ callNo = 0
    /\ stack = <<>>
    /\ res = EmptyRes
    /\ outcome = [kind |-> "none", code |-> 0]
    /\ faults = 0
    /\ pre = Snapshot
    /\ hist = NoHist

\* a request for the path of at most MaxHops segments, with or without a
\* query string that parses, to a tree in which any Apis have a hyper_impl
\* and the arguments of at most one Api are rejected
InitHttp ==
    /\ Quiet
    /\ walk = NoWalk
    /\ cli = NoCli
    /\ de = NoDe
    /\ \E segs \in Chains(MaxHops), q \in BOOLEAN, impls \in SUBSET Tree,
          invalid \in {{}, {ApiRoot}, {<<"a">>}} :
         http = [NoHttp EXCEPT !.segs = segs, !.uri = UriPath(segs), !.query = q,
                               !.impls = impls, !.invalid = invalid, !.pc = "new"]

NextHttp == create_service_fn \/ handle_request

HttpSpec == InitHttp /\ [][NextHttp]_vars

\* a command line clap has matched: the chain of subcommands is an Api of
\* the tree; any Apis have a pre-hook, which succeeds or fails, and a
\* clap_impl
InitCli ==
    /\ Quiet
    /\ walk = NoWalk
    /\ http = NoHttp
    /\ de = NoDe
    /\ \E args \in Tree, hooks \in [Tree -> Hooks], impls \in SUBSET Tree :
         cli = [NoCli EXCEPT !.args = args, !.hooks = hooks, !.impls = impls,
                             !.pc = "new"]

NextCli == run_cli \/ handle_command

CliSpec == InitCli /\ [][NextCli]_vars

\* an ArgValue of any kind; a map holds any of the declared fields and
\* possibly a key that is not declared
InitDe ==
    /\ Quiet
    /\ walk = NoWalk
    /\ http = NoHttp
    /\ cli = NoCli
    /\ \E v \in {Str("1"), Arr}
              \cup {Map(m) : m \in UNION {[K -> MapValues] : K \in SUBSET MapKeys}} :
         de = [NoDe EXCEPT !.self = v, !.pc = "new"]

NextDe == deserialize_struct \/ next_key_seed \/ next_value_seed

DeSpec == InitDe /\ [][NextDe]_vars

\* the preview is over: what it returned is kept in hist.ref and the same
\* call is made for real, from the records the preview started with
Flip ==
    /\ stack = <<>>
    /\ callNo = 1
    /\ dry
    /\ hist.ref = {}
    /\ outcome.kind \in {"ok", "err"}
    /\ dry' = FALSE
    /\ persisted' = pre.persisted
    /\ replica' = pre.replica
    /\ configured' = pre.configured
    /\ recoverable' = pre.recoverable
    /\ needsRestart' = pre.needsRestart
    /\ status' = pre.status
    /\ stack' = <<Frame(root, arg)>>
    /\ res' = EmptyRes
    /\ outcome' = [kind |-> "running", code |-> 0]
    /\ hist' = [NoHist EXCEPT !.prevFiles = pre.persisted,
                               !.ref = {[res |-> res, outcome |-> outcome]}]
    /\ UNCHANGED <<aux, graph, root, arg, callNo, faults, pre>>

\* a preview followed by the real call: every app has a config file, so that
\* no value is generated, with any flags and status, and no external
\* operation fails
InitDry ==
    /\ graph \in Graphs
    /\ \E ports \in [Apps -> Ports] :
         /\ \A a \in Apps : ports[a] \in InitPorts[a]
         /\ persisted = FilesOf(graph, ports)
    /\ replica = persisted
    /\ configured \in [Apps -> BOOLEAN]
    /\ recoverable \in [Apps -> BOOLEAN]
    /\ \A a \in Apps : recoverable[a] => configured[a]
    /\ needsRestart = [a \in Apps |-> FALSE]
    /\ status \in [Apps -> {Running, Stopped}]
    /\ root \in {"A", "D"}
    /\ arg \in {IF p = Null THEN {} ELSE {Cfg(p, Null)} : p \in ArgPorts}
    /\ dry = TRUE
    /\ InitCall
    /\ faults = MaxFaults

NextDry == Next \/ Flip

DrySpec == InitDry /\ [][NextDry]_vars

-----------------------------------------------------------------------------
(* Properties *)

Finished == stack = <<>> /\ outcome.kind # "running"

FinishedOk == stack = <<>> /\ outcome.kind = "ok"

\* the dependents of the root whose re-derived value failed spec.matches
BrokenByMatch == {p[2] : p \in {q \in hist.matchFailed : q[1] = root}}

PointerStable ==
    PtrTarget(root) = Ghost
    \/ hist.prevFiles[PtrTarget(root)] = pre.persisted[PtrTarget(root)]

Containing ==
    /\ stack # <<>>
    /\ \/ Top.pc \in {"broken", "stopself"}
       \/ Top.pc = "ret" /\ Top.ret.kind = "err"

\* C3: while a frame deals with the failed branch of one dependent, whatever
\* fails, the frame is not left: it goes on to the remaining dependents and
\* to its persistence.
C3_SiblingIsolation == [][Containing => Len(stack') = Len(stack)]_vars

\* C4: the step-6 short-circuit bounds the recursion: an app that is entered
\* again while a frame of it is still active never gets past step 6, and the
\* recursion does not run away.
C4_ShortCircuitBoundsDepth ==
    /\ outcome.kind # "diverged"
    /\ \A i, j \in 1..Len(stack) :
         (i < j /\ stack[i].name = stack[j].name) => stack[j].pc = "enter"

\* C6: during a call with dry_run = true the durable config, the replica, the
\* three flags and the running status of every app stay what they were when
\* the call began.
C6_DryRunMutatesNothing == dry => Snapshot = pre

C6_Witness ==
    /\ dry /\ FinishedOk
    /\ res.changed # <<>> /\ res.stopped # <<>> /\ res.needs_restart # <<>>
    /\ hist.matchFailed # {}

\* C7: a root candidate that fails Spec.match or the pointer update ends the
\* call with an error of code CFG_SPEC_VIOLATION, one that violates a rule of
\* the root with code CFG_RULES_VIOLATION, and no stopped record is made of it.
C7_RootFailuresSurfaced ==
    Finished =>
        /\ hist.rootStage \in {"matches", "update"} =>
             outcome = [kind |-> "err", code |-> CFG_SPEC_VIOLATION] /\ res.stopped = <<>>
        /\ hist.rootStage = "rules" =>
             outcome = [kind |-> "err", code |-> CFG_RULES_VIOLATION] /\ res.stopped = <<>>

C7_Witness ==
    /\ Finished /\ hist.rootStage = "rules" /\ arg # {}
    /\ outcome.code = CFG_RULES_VIOLATION

FailedAt(d) == {p \in hist.persistFailed : IF d = 1 THEN p.depth = 1 ELSE p.depth > 1}

\* C8 as stated: a failure of step-9 persistence in any frame, root or
\* dependent, makes the top-level call return an error.
C8_PersistFailureAlwaysPropagates ==
    (Finished /\ hist.persistFailed # {}) => outcome.kind = "err"

StoppedAs(d, kinds) ==
    \E i \in 1..Len(res.stopped) :
        res.stopped[i].name = d /\ res.stopped[i].val.error.kind \in kinds

\* C8 amended: a persistence failure in the root frame makes configure return
\* that error; one in a dependent's frame aborts that frame only, and its
\* parent contains it as a broken dependent with an "other" reason (the call
\* returns Ok when nothing else fails).
C8_PersistFailure ==
    (Finished /\ faults = 1) =>
        /\ FailedAt(1) # {} =>
             outcome.kind = "err" /\ outcome.code \in {FILESYSTEM_ERROR, GENERAL_ERROR}
        /\ FailedAt(2) # {} =>
             /\ outcome.kind = "ok"
             /\ \A p \in FailedAt(2) :
                  pre.status[p.name] # Stopped => StoppedAs(p.name, {"Other", "NotRunning"})

C8_Witness ==
    /\ FinishedOk /\ faults = 1
    /\ \E p \in FailedAt(2) : StoppedAs(p.name, {"Other"})
    /\ root \in Keys(res.changed)

Ptr(file) == (CHOOSE c \in file : TRUE).ptr

\* C9: when the root's port is changed by configure(X, Some(v), None, false),
\* every dependent whose pointer refers to X ends with the new port in its
\* pointer field, in changed and in its persisted config.
C9_PointerSeesNewValue ==
    (FinishedOk /\ callNo = 1 /\ ~dry /\ faults = 0 /\ arg # {}
       /\ pre.persisted[root] # {} /\ PortOf(pre.persisted[root]) # PortOf(arg)) =>
        \A d \in Apps :
            (root \in graph[d] /\ PtrTarget(d) = root /\ <<root, d>> \notin hist.matchFailed
               /\ persisted[d] # {}) =>
                /\ Ptr(persisted[d]) = PortOf(arg)
                /\ \A i \in 1..Len(res.changed) :
                     res.changed[i].name = d => res.changed[i].val.ptr = PortOf(arg)

Rejected == {p[2] : p \in {q \in hist.rejected : q[1] = root}}

TheRef == CHOOSE r \in hist.ref : TRUE

\* C5: a non-dry-run call that is killed after any step and then retried to
\* completion leaves every app's durable config, replica and flags as the
\* uninterrupted call from the same initial state leaves them.
C5_RetryEqualsUninterrupted ==
    (hist.ref # {} /\ callNo = 2 /\ hist.prevOutcome = "crashed" /\ Finished) =>
        /\ persisted = TheRef.persisted
        /\ replica = TheRef.replica
        /\ configured = TheRef.configured
        /\ recoverable = TheRef.recoverable
        /\ needsRestart = TheRef.needsRestart

PersistPcs == {"write", "copy", "setconf", "setrec", "status"}

Entered == {hist.entered[i] : i \in 1..Len(hist.entered)}

\* C11: only the innermost frame executes, every other frame waits in the
\* call of the dependent it is visiting, and a frame is in its persistence
\* or restart bookkeeping only when it has no dependent left to visit and
\* every dependent's frame was entered and has returned.
C11_SequentialDepthFirst ==
    \A i \in 1..Len(stack) :
        /\ i < Len(stack) =>
             /\ stack[i].pc = "call"
             /\ stack[i].todo # <<>>
             /\ stack[i + 1].name = Head(stack[i].todo)
        /\ stack[i].pc \in PersistPcs =>
             /\ i = Len(stack)
             /\ stack[i].todo = <<>>
             /\ \A d \in Apps : stack[i].name \in graph[d] => d \in Entered

C11_Witness ==
    /\ Depth = 1 /\ Top.pc = "write" /\ faults = 0 /\ callNo = 1
    /\ persisted[root] = pre.persisted[root]
    /\ \E d \in Apps :
         /\ root \in graph[d]
         /\ d \in Keys(res.changed)
         /\ persisted[d] # pre.persisted[d]
         /\ configured[d]

Members(s) == {s[i] : i \in 1..Len(s)}

TheArg == CHOOSE c \in arg : TRUE

\* the call of Scenario A: a root without dependents, a supplied value that
\* matches, passes the rules and differs from the persisted one, no failure
ScenarioA ==
    /\ Finished /\ callNo = 1 /\ faults = 0 /\ ~dry
    /\ root \in Apps /\ dependents(root) = <<>>
    /\ arg # {} /\ matches(TheArg)
    /\ FirstViolation(update(root, TheArg), <<root, update(root, TheArg)>>) = 0
    /\ pre.persisted[root] # {update(root, TheArg)}

\* C12: needs_restart holds exactly the apps whose frame reached step 10
\* while they were running, the needs-restart flag is set for them only when
\* dry_run is false; and Scenario A returns changed = {X: v}, stopped = {}
\* and needs_restart = {X} iff X was running.
C12_RestartBookkeeping ==
    /\ Members(res.needs_restart) = {q[1] : q \in {r \in hist.step10 : r[2] = Running}}
    /\ \A a \in Apps :
         /\ needsRestart[a] # pre.needsRestart[a] => ~dry /\ <<a, Running>> \in hist.step10
         /\ (~dry /\ <<a, Running>> \in hist.step10) => needsRestart[a]
    /\ ScenarioA =>
         /\ outcome.kind = "ok"
         /\ res.changed = <<[name |-> root, val |-> update(root, TheArg)]>>
         /\ res.stopped = <<>>
         /\ res.needs_restart = IF pre.status[root] = Running THEN <<root>> ELSE <<>>

C12_Witness ==
    /\ ScenarioA /\ PtrTarget(root) = Ghost
    /\ pre.status[root] = Running
    /\ res.changed = <<[name |-> root, val |-> TheArg]>>
    /\ res.needs_restart = <<root>>
    /\ needsRestart[root]

\* C13: two calls configure(X, None, None, false) started from the same
\* records, X having no config, generate the same value: X's persisted
\* config after the second run is the one the first run left.
C13_SameSeedSameValue ==
    (hist.ref # {} /\ callNo = 1 /\ FinishedOk /\ TheRef.persisted[root] # {}) =>
        persisted[root] = TheRef.persisted[root]

RECURSIVE KeepLast(_)
KeepLast(s) ==
    IF s = <<>> THEN <<>>
    ELSE IF Head(s) \in Members(Tail(s)) THEN KeepLast(Tail(s))
    ELSE <<Head(s)>> \o KeepLast(Tail(s))

KeepFirst(s) == rev(KeepLast(rev(s)))

\* C14 as stated: the keys of changed are in the order in which the apps
\* first reached step 7, the root first, also when an app reaches step 7
\* more than once.
C14_VisitOrder == KeyOrder(res.changed) = KeepFirst(hist.visited)

\* C14 amended: the keys of changed are in the order of each app's latest
\* arrival at step 7 (inserting a key again moves it to the back); the root
\* is the first key when it reached step 7 only once, and the order is the
\* order of the visits when no app reached step 7 twice.
C14_LastVisitOrder ==
    /\ KeyOrder(res.changed) = KeepLast(hist.visited)
    /\ (res.changed # <<>> /\ Cardinality({i \in 1..Len(hist.visited) :
                                             hist.visited[i] = root}) = 1)
         => res.changed[1].name = root
    /\ Len(hist.visited) = Len(res.changed) => KeyOrder(res.changed) = hist.visited

C14_Witness ==
    /\ FinishedOk
    /\ Len(hist.visited) > Len(res.changed)
    /\ Len(res.changed) > 1
    /\ res.changed[1].name # root

\* C15: remove(name) without a failing operation returns Ok whatever files
\* exist; after Ok neither file exists and configured is false; nothing of
\* another app, no other flag of the app and no frame is touched; a second
\* remove(name) after an Ok one returns Ok and changes nothing.
C15_RemoveIdempotent ==
    callNo >= 1 =>
        /\ ~hist.faulted => outcome.kind = "ok"
        /\ outcome.kind = "ok" =>
             /\ persisted[hist.removed] = {}
             /\ replica[hist.removed] = {}
             /\ ~configured[hist.removed]
        /\ \A a \in Apps \ {hist.removed} :
             /\ persisted[a] = pre.persisted[a]
             /\ replica[a] = pre.replica[a]
             /\ configured[a] = pre.configured[a]
        /\ recoverable = pre.recoverable
        /\ needsRestart = pre.needsRestart
        /\ status = pre.status
        /\ stack = <<>> /\ res = EmptyRes /\ hist.frames = 0
        /\ (hist.prevOutcome = "ok" /\ hist.prevRemoved = hist.removed /\ ~hist.faulted) =>
             outcome.kind = "ok" /\ Snapshot = pre

C15_Witness ==
    /\ callNo = 2 /\ outcome.kind = "ok"
    /\ hist.prevOutcome = "ok" /\ hist.prevRemoved = hist.removed
    /\ Snapshot = pre
    /\ persisted[hist.removed] = {} /\ replica[hist.removed] = {}
    /\ \E a \in Apps \ {hist.removed} : persisted[a] # {} /\ configured[a]

\* C16: once prepend has been called for every field on the way out, the
\* error is rendered as the fields joined by "." with the outermost first,
\* then ": " and the error; a type error at port inside db reads "db.port: ...".
C16_PathQualified ==
    walk.pending = <<>> =>
        /\ Display(walk.err) = join(walk.fields, ".") \o ": " \o walk.err.error
        /\ walk.fields = <<"db", "port">> =>
             \E e \in MatchErrors : Display(walk.err) = "db.port: " \o e

C16_Witness ==
    /\ walk.pending = <<>>
    /\ walk.fields = <<"db", "port">>
    /\ walk.err.path = <<"port", "db">>
    /\ Display(walk.err) = "db.port: Invalid Type: expected number, actual: string"

GenStepFails ==
    /\ stack # <<>>
    /\ Top.pc = "enter"
    /\ Top.name \in Apps
    /\ NeedsGen(Top.name, Top.arg)
    /\ faults' = faults + 1

FrameError ==
    IF Len(stack) = 1 THEN outcome' ELSE [kind |-> stack'[Len(stack')].ret.kind,
                                           code |-> stack'[Len(stack')].ret.code]

\* C19: when generation runs into its deadline the frame ends with an error
\* (code CFG_SPEC_VIOLATION) and records, persists and cascades nothing: no
\* frame that was to generate its value goes on after a failure, and a root
\* frame stopped by the timeout leaves an empty result and the records as
\* they were.
C19_GenerationTimeout ==
    [][/\ GenStepFails =>
            /\ Len(stack') = Len(stack) - 1
            /\ durable' = durable
            /\ FrameError.kind = "err"
            /\ FrameError.code = CFG_SPEC_VIOLATION => res' = res
       /\ (hist'.rootStage = "gen" /\ hist.rootStage # "gen") =>
            /\ stack' = <<>>
            /\ outcome' = [kind |-> "err", code |-> CFG_SPEC_VIOLATION]
            /\ res' = EmptyRes
            /\ durable' = durable
            /\ hist'.frames = 1]_vars

C19_Witness ==
    /\ Finished /\ hist.rootStage = "gen" /\ faults = 1
    /\ persisted[root] = {} /\ arg = {}
    /\ outcome = [kind |-> "err", code |-> CFG_SPEC_VIOLATION]
    /\ res = EmptyRes /\ Snapshot = pre

\* C20: the candidate of a frame is the supplied value if there is one, else
\* the persisted value if there is one, else a generated value; the frame of
\* a dependent is called without a supplied value.
C20_CandidateSelection ==
    /\ \A r \in hist.cands :
         /\ r.supplied # {} => r.cand = r.supplied
         /\ (r.supplied = {} /\ r.old # {}) => r.cand = r.old
         /\ (r.supplied = {} /\ r.old = {}) => r.cand \subseteq GenValues
         /\ r.depth > 1 => r.supplied = {}
    /\ \A i \in 2..Len(stack) : stack[i].arg = {}

C20_Witness ==
    /\ root \in Apps
    /\ arg # {} /\ pre.persisted[root] # {} /\ pre.persisted[root] # arg
    /\ hist.rootCfg = {update(root, TheArg)}
    /\ Len(hist.entered) = 3
    /\ pre.persisted[hist.entered[2]] = {}
    /\ \E i \in 1..Len(res.changed) :
         /\ res.changed[i].name = hist.entered[2]
         /\ [res.changed[i].val EXCEPT !.ptr = Null] \in GenValues
    /\ \E r \in hist.cands :
         /\ r.depth > 1 /\ r.name = hist.entered[3]
         /\ r.supplied = {} /\ r.old # {} /\ r.cand = r.old

\* the frame on top runs its steps 1-6 and its candidate passes the match,
\* the update and the rules
Validated == stack # <<>> /\ Top.pc = "enter" /\ hist'.cands # {}

\* that candidate, pointer-updated
TheCand ==
    update(Top.name, CHOOSE c \in (CHOOSE r \in hist'.cands : TRUE).cand : TRUE)

\* the frame on top returns Ok in this step
ReturnsOk == Len(stack') = Len(stack) - 1 /\ FrameError.kind = "ok"

ReturnedCfg == IF Len(stack) = 1 THEN hist'.rootCfg ELSE stack'[Len(stack')].ret.cfg

\* C21: a frame whose candidate is valid returns at step 6 iff a persisted
\* value exists, equals the updated candidate, and the app is configured and
\* not recoverable; it then returns the candidate, adds nothing to changed,
\* needs_restart or stopped, enters no dependent and modifies no file or flag;
\* otherwise the app is put in changed.
C21_ShortCircuit ==
    [][Validated =>
         /\ ReturnsOk <=> /\ persisted[Top.name] = {TheCand}
                          /\ configured[Top.name]
                          /\ ~recoverable[Top.name]
         /\ ReturnsOk =>
              /\ res' = res
              /\ durable' = durable
              /\ ReturnedCfg = {TheCand}
              /\ hist'.visited = hist.visited
              /\ hist'.frames = hist.frames + 1
         /\ ~ReturnsOk => Top.name \in Keys(res'.changed)]_vars

C21_Witness ==
    /\ FinishedOk /\ callNo = 1 /\ hist.rootStage = "short"
    /\ arg = {} /\ dependents(root) # <<>>
    /\ persisted[root] = hist.rootCfg /\ configured[root] /\ ~recoverable[root]
    /\ res = EmptyRes /\ hist.frames = 1 /\ Snapshot = pre

\* C22: a frame of an app that is recoverable or not configured goes past
\* step 6 although its candidate equals the stored value; and when a frame
\* of a call with dry_run = false returns Ok from step 10, the app's config
\* file and its replica hold the returned value, the app is configured and
\* not recoverable.
C22_PersistPostcondition ==
    [][/\ (Validated /\ persisted[Top.name] = {TheCand}
             /\ (recoverable[Top.name] \/ ~configured[Top.name])) =>
            /\ ~ReturnsOk
            /\ Top.name \in Keys(res'.changed)
            /\ hist'.visited = Append(hist.visited, Top.name)
       /\ (stack # <<>> /\ Top.pc = "status" /\ ~dry /\ ReturnsOk) =>
            /\ persisted'[Top.name] = Top.cfg
            /\ replica'[Top.name] = Top.cfg
            /\ configured'[Top.name]
            /\ ~recoverable'[Top.name]
            /\ Len(stack) > 1 => stack'[Len(stack')].ret.cfg = Top.cfg]_vars

C22_Witness ==
    /\ FinishedOk /\ callNo = 1 /\ ~dry /\ root \in Apps
    /\ pre.recoverable[root] /\ pre.persisted[root] = hist.rootCfg
    /\ hist.rootStage = "go"
    /\ root \in Keys(res.changed)
    /\ persisted[root] = hist.rootCfg /\ replica[root] = hist.rootCfg
    /\ configured[root] /\ ~recoverable[root]

\* the frame on top is told that the frame of the dependent it called failed
DependentFailed == stack # <<>> /\ Top.pc = "ret" /\ Top.ret.kind = "err"

ValidationCodes == {CFG_SPEC_VIOLATION, CFG_RULES_VIOLATION}

\* the frame on top goes on to handle_broken_dependent with this reason
Contains(kind) ==
    /\ Len(stack') = Len(stack)
    /\ stack'[Len(stack')].pc = "broken"
    /\ stack'[Len(stack')].todo = Top.todo
    /\ stack'[Len(stack')].berr = DependencyError(kind, Top.ret.code)

C24_TimeoutIsOther ==
    [][(DependentFailed /\ faults' = faults
          /\ (Top.ret.code \notin ValidationCodes \/ hist.timedOut)) =>
            Contains("Other") /\ configured' = configured]_vars

\* C24 amended: a dependent's frame that failed with a code other than the
\* two validation codes is contained with an "other" reason and no flag,
\* file or status is touched by the parent; a generation timeout is not such
\* a failure: it carries CFG_SPEC_VIOLATION and is contained as a validation
\* failure.
C24_OtherFailureOfDependent ==
    [][/\ (DependentFailed /\ Top.ret.code \notin ValidationCodes) =>
            /\ Contains("Other")
            /\ durable' = durable
            /\ res' = res
            /\ faults' = faults
       /\ (DependentFailed /\ hist.timedOut) =>
            /\ Top.ret.code = CFG_SPEC_VIOLATION
            /\ faults' = faults => Contains("PointerUpdateError")]_vars

C24_Witness ==
    /\ stack # <<>> /\ Top.pc = "broken" /\ ~dry
    /\ Top.berr = DependencyError("Other", FILESYSTEM_ERROR)
    /\ configured[Head(Top.todo)] /\ pre.configured[Head(Top.todo)]
    /\ Snapshot = pre

\* the broken dependent the frame on top is containing
Broken == Head(Top.todo)

\* handle_broken_dependent is about to stop the dependent's dependents
StoppingDependents == stack # <<>> /\ Top.pc = "broken" /\ faults' = faults

\* handle_broken_dependent is about to look at the dependent itself
StoppingSelf == stack # <<>> /\ Top.pc = "stopself" /\ faults' = faults

Last(s) == s[Len(s)]

ViolatedBy(name, c) ==
    {i \in 1..Len(Rules) :
        ~rule_check(Rules[i], update(name, c), NewCfgs(name, update(name, c)))}

\* the frame on top returns this error code in this step
ReturnsErr(code) ==
    /\ Len(stack') = Len(stack) - 1
    /\ FrameError = [kind |-> "err", code |-> code]

\* C26: the rules are checked in declaration order against the updated
\* candidate and a table whose only entry is the app's name with that
\* candidate; the check stops at the first violated rule, the frame then ends
\* with CFG_RULES_VIOLATION, and a frame goes on only if every rule holds.
C26_RuleChecking ==
    [][(stack # <<>> /\ Top.pc = "enter" /\ Top.name \in Apps) =>
         /\ \A c \in Candidates(Top.name, Top.arg) :
              matches(c) =>
                LET u == update(Top.name, c)
                    t == NewCfgs(Top.name, u)
                    l == RulesLoop(Rules, u, t)
                    n == Len(l.evaluated)
                IN /\ t = <<[name |-> Top.name, val |-> u]>>
                   /\ n >= 1
                   /\ l.evaluated = SubSeq(Rules, 1, n)
                   /\ \A j \in 1..(n - 1) : rule_check(Rules[j], u, t)
                   /\ l.code = IF rule_check(Rules[n], u, t) THEN 0
                               ELSE CFG_RULES_VIOLATION
                   /\ l.code = 0 => n = Len(Rules)
         /\ Validated => ViolatedBy(Top.name,
                            CHOOSE c \in (CHOOSE r \in hist'.cands : TRUE).cand : TRUE) = {}
         /\ ReturnsErr(CFG_RULES_VIOLATION) =>
              /\ \E c \in Candidates(Top.name, Top.arg) :
                    matches(c) /\ ViolatedBy(Top.name, c) # {}
              /\ res' = res /\ durable' = durable /\ faults' = faults
         /\ (faults' = faults
               /\ \A c \in Candidates(Top.name, Top.arg) :
                     matches(c) /\ ViolatedBy(Top.name, c) # {}) =>
              ReturnsErr(CFG_RULES_VIOLATION)]_vars

C26_Witness ==
    /\ stack # <<>> /\ Top.pc = "broken" /\ faults = 0
    /\ Top.berr = DependencyError("PointerUpdateError", CFG_RULES_VIOLATION)
    /\ persisted[Broken] # {}
    /\ LET c == CHOOSE c \in persisted[Broken] : TRUE
           l == RulesLoop(Rules, update(Broken, c), NewCfgs(Broken, update(Broken, c)))
       IN /\ matches(c)
          /\ l.evaluated = Rules
          /\ l.code = CFG_RULES_VIOLATION

\* C27: a frame of an app that is not installed ends with NOT_FOUND, its
\* only other way out being a failure of list_info itself: no file of the
\* app is read, nothing is recorded or written, no dependent is entered, and
\* at the root configure returns the error.
C27_NotInstalled ==
    [][(stack # <<>> /\ Top.pc = "enter" /\ Top.name \notin Apps) =>
         /\ \A o \in FrameOutcomes(Top.name, Top.arg) :
              o.stage \in {"installed", "list_info"} /\ o.kind = "err"
         /\ faults' = faults => ReturnsErr(NOT_FOUND)
         /\ res' = res
         /\ durable' = durable
         /\ hist'.visited = hist.visited
         /\ Len(stack) = 1 =>
              /\ stack' = <<>>
              /\ outcome'.kind = "err"
              /\ faults' = faults => outcome'.code = NOT_FOUND]_vars

C27_Witness ==
    /\ Finished /\ root \notin Apps /\ faults = 0 /\ callNo = 1
    /\ hist.rootStage = "installed"
    /\ outcome = [kind |-> "err", code |-> NOT_FOUND]
    /\ res = EmptyRes /\ Snapshot = pre /\ hist.frames = 1
    /\ \E a \in Apps : persisted[a] # {} /\ status[a] = Running

RootValidationStages == {"installed", "matches", "update", "rules"}

\* C28: when the root is not installed, or its candidate fails the match,
\* the pointer update or a rule, configure returns an error, no file, flag or
\* status of any app has changed, the result is empty and no frame but the
\* root's was entered, whatever dry_run is.
C28_RootFailureChangesNothing ==
    (Finished /\ hist.rootStage \in RootValidationStages) =>
        /\ outcome.kind = "err"
        /\ outcome.code \in {NOT_FOUND, CFG_SPEC_VIOLATION, CFG_RULES_VIOLATION}
        /\ Snapshot = pre
        /\ res = EmptyRes
        /\ hist.frames = 1 /\ hist.entered = <<root>> /\ hist.visited = <<>>

C28_Witness ==
    /\ Finished /\ ~dry /\ hist.rootStage = "update" /\ root \in Apps
    /\ dependents(root) # <<>> /\ arg # {}
    /\ outcome = [kind |-> "err", code |-> CFG_SPEC_VIOLATION]
    /\ Snapshot = pre /\ res = EmptyRes /\ hist.frames = 1

\* C29: when a call with dry_run = false returns Ok, every app in changed
\* has the config file that changed gives for it, is configured and is not
\* recoverable.
C29_ChangedImpliesPersisted ==
    (FinishedOk /\ ~dry) =>
        \A i \in 1..Len(res.changed) :
            /\ persisted[res.changed[i].name] = {res.changed[i].val}
            /\ configured[res.changed[i].name]
            /\ ~recoverable[res.changed[i].name]

\* C30: every app in needs_restart is a key of changed, in the result that
\* configure returns and while it is built.
C30_NeedsRestartSubsetOfChanged ==
    Members(res.needs_restart) \subseteq Keys(res.changed)

C30_Witness ==
    /\ FinishedOk /\ callNo = 1
    /\ Len(res.needs_restart) >= 2
    /\ Len(res.changed) > Len(res.needs_restart)
    /\ res.stopped # <<>>

\* C31: in a result that configure returns no app is both a key of stopped
\* and a member of needs_restart, and a call with dry_run = false leaves no
\* app that it stopped with a needs-restart flag that it set.
C31_StoppedDisjointNeedsRestart ==
    FinishedOk =>
        /\ Keys(res.stopped) \cap Members(res.needs_restart) = {}
        /\ ~dry => \A a \in Apps :
                      (status[a] = Stopped /\ pre.status[a] # Stopped) =>
                          (needsRestart[a] => pre.needsRestart[a])

\* C32: whenever no call is running (before a call, after one that returned
\* Ok or an error, after one that was cut short), every app whose configured
\* flag is true has a config file and a replica with the same contents.
C32_ConfiguredImpliesConsistentFiles ==
    stack = <<>> =>
        \A a \in Apps :
            configured[a] => persisted[a] # {} /\ replica[a] = persisted[a]

\* C33: the call with dry_run = false returns what the call with
\* dry_run = true returned from the same records: the same Ok or error, and
\* the same changed, needs_restart and stopped.
C33_DryRunPreviewsRealRun ==
    (hist.ref # {} /\ callNo = 1 /\ ~dry /\ Finished) =>
        /\ outcome = TheRef.outcome
        /\ outcome.kind = "ok" =>
             /\ res.changed = TheRef.res.changed
             /\ Members(res.needs_restart) = Members(TheRef.res.needs_restart)
             /\ Members(res.stopped) = Members(TheRef.res.stopped)

\* the apps a call on the root can reach along dependent edges
Reach == IF root \in Apps THEN {root} \cup AllDependents(root) ELSE {}

\* C34: during and after a call, every app that is neither the root nor a
\* transitive dependent of it has the config file, replica, flags and status
\* it had when the call began, and is in none of changed, needs_restart and
\* stopped.
C34_Locality ==
    \A a \in Apps \ Reach :
        /\ persisted[a] = pre.persisted[a]
        /\ replica[a] = pre.replica[a]
        /\ configured[a] = pre.configured[a]
        /\ recoverable[a] = pre.recoverable[a]
        /\ needsRestart[a] = pre.needsRestart[a]
        /\ status[a] = pre.status[a]
        /\ a \notin Keys(res.changed)
        /\ a \notin Members(res.needs_restart)
        /\ a \notin Keys(res.stopped)

C34_Witness ==
    /\ FinishedOk /\ ~dry /\ root \in Apps /\ callNo = 1
    /\ persisted[root] # pre.persisted[root]
    /\ \E d \in AllDependents(root) : d \in Keys(res.stopped) /\ status[d] # pre.status[d]
    /\ \E a \in Apps \ Reach :
         /\ graph[root] = {a}
         /\ persisted[a] # {} /\ status[a] = Running

-----------------------------------------------------------------------------
(* HTTP routing, api/hyper_helpers.rs *)

\* the request went through: the query string parsed and no Api rejected
\* its arguments
Answered == http.pc = "done" /\ http.query /\ http.invalid = {}

\* the Api the longest chain of leading segments names
RECURSIVE LastMatched(_)
LastMatched(segs) ==
    IF segs \in Tree THEN segs ELSE LastMatched(SubSeq(segs, 1, Len(segs) - 1))

\* C35: a request for /c1/c2/.../cn, n >= 1, where c1 is a command of the
\* root Api and each c(i+1) a command of c(i), is dispatched to the
\* hyper_impl of cn; a not-found response is produced only when some segment
\* names no command and the last matched Api has no hyper_impl.
C35_NestedRouting ==
    (Answered /\ http.segs # <<>>) =>
        /\ (http.segs \in Tree /\ http.segs \in http.impls)
              => http.response = Response("hyper_impl", http.segs)
        /\ http.response.kind = "not_found"
              => /\ http.segs \notin Tree
                 /\ LastMatched(http.segs) \notin http.impls

-----------------------------------------------------------------------------
(* CLI dispatch, api/clap_helpers.rs *)

\* the Api the first k matched subcommands lead to
Matched(k) == SubSeq(cli.args, 1, k)

\* the pre-hooks of the Apis the first 0..k subcommands lead to, root first
RECURSIVE HooksUpTo(_)
HooksUpTo(k) ==
    IF k < 0 THEN <<>>
    ELSE HooksUpTo(k - 1) \o
         (IF cli.hooks[Matched(k)] # "none"
          THEN <<Event("clap_pre_hook", Matched(k), <<>>)>> ELSE <<>>)

\* the first Api above the leaf whose pre-hook fails; the leaf if there is none
FirstFailing ==
    LET failing == {k \in 0..(Len(cli.args) - 1) : cli.hooks[Matched(k)] = "err"}
    IN IF failing = {} THEN Len(cli.args)
       ELSE CHOOSE k \in failing : \A j \in failing : k <= j

\* the chain of matched subcommands below the root, in order
FullCommand == [k \in 1..Len(cli.args) |-> Matched(k)]

HookEvents == SelectSeq(cli.log, LAMBDA e : e.kind = "clap_pre_hook")

\* C36 as stated: the pre-hook of every Api on the path from the root to the
\* matched leaf runs, the leaf's included.
C36_HooksOfWholePath ==
    (cli.pc = "done" /\ \A k \in 0..Len(cli.args) : cli.hooks[Matched(k)] # "err")
        => HookEvents = HooksUpTo(Len(cli.args))

\* C36: handle_command runs the pre-hook of every Api above the matched leaf
\* in root-to-leaf order, before anything of its child; a failing pre-hook
\* ends the dispatch with its error and nothing below it runs; otherwise the
\* leaf's clap_impl runs last with the chain of matched subcommands below the
\* root as full_command, and a leaf without clap_impl yields
\* UNRECOGNIZED_COMMAND.  The leaf's own pre-hook does not run.
C36_DispatchOrder ==
    cli.pc = "done" =>
        LET n == Len(cli.args)
        IN IF FirstFailing < n
           THEN /\ cli.log = HooksUpTo(FirstFailing)
                /\ cli.result = [kind |-> "err", code |-> GENERAL_ERROR]
           ELSE IF cli.args \in cli.impls
           THEN /\ cli.log = Append(HooksUpTo(n - 1),
                                    Event("clap_impl", cli.args, FullCommand))
                /\ cli.result.kind = "ok"
           ELSE /\ cli.log = HooksUpTo(n - 1)
                /\ cli.result = [kind |-> "err", code |-> UNRECOGNIZED_COMMAND]

C36_Witness ==
    /\ cli.pc = "done"
    /\ cli.args = <<"a", "b", "a">>
    /\ cli.hooks[<<"a", "b", "a">>] = "ok"
    /\ cli.hooks[<<"b">>] = "err"
    /\ cli.log = << Event("clap_pre_hook", <<>>, <<>>),
                    Event("clap_pre_hook", <<"a">>, <<>>),
                    Event("clap_pre_hook", <<"a", "b">>, <<>>),
                    Event("clap_impl", <<"a", "b", "a">>,
                          << <<"a">>, <<"a", "b">>, <<"a", "b", "a">> >>) >>

-----------------------------------------------------------------------------
(* Struct deserialization, api/arg_value.rs *)

\* C37: when an ArgValue::Map is deserialized as a struct, the visitor is
\* given an entry for every declared field that is present in the map,
\* whether or not fields declared earlier are absent from the map.
C37_EveryPresentFieldVisited ==
    (de.pc = "done" /\ de.self.kind = "Map") =>
        \A i \in 1..Len(fields) :
            fields[i] \in DOMAIN de.self.m =>
                \E j \in 1..Len(de.visited) :
                    de.visited[j] = <<fields[i], de.self.m[fields[i]]>>

=============================================================================
